---- MODULE Spec2Model ----
(***************************************************************************)
(* A model of the two martini middlewares of this repository:              *)
(*   - the gzip compression filter (serveGzip, gzipResponseWriter), and    *)
(*   - the render helper (Renderer, Render.JSON/XML/HTML/WriteData).       *)
(* SpecGzip follows one request through the compression filter and the     *)
(* handlers downstream of it.  SpecRender follows concurrent requests      *)
(* through Renderer and one render operation each.                         *)
(***************************************************************************)
EXTENDS Integers, Sequences, FiniteSets, TLC

VARIABLES
    \* ---- compression filter ----
    acceptEnc,   \* the request's Accept-Encoding value, a sequence of characters
    hdr,         \* the response header map (w.Header()): present keys -> value
    gzPc,        \* position of serveGzip: "start", "next" (inside c.Next()), "done", "panicked"
    chain,       \* the handlers after the filter: "idle", "running", "returned", "panicked"
    writer,      \* the http.ResponseWriter capability injected downstream: "w" or "gzw"
    gz,          \* the gzip.Writer: created, header written, buffered bytes, Close calls
    under,       \* what the underlying writer w has received, in order
    handlerOut,  \* every byte the handlers wrote through the capability, in order
    nWrites,     \* number of handler writes so far
    gzLog,       \* what serveGzip did after c.Next(), in order: "del", "close"
    \* ---- render helper ----
    env,         \* martini.Env: "development" or "production"
    options,     \* the variadic RenderOptions given to Renderer: <<>> or <<o>>
    mw,          \* what Renderer(options...) computed: opt, cs, registered
    tsets,       \* the template sets in memory: id -> [tmpls, funcs]; id 0 is Renderer's t
    rend,        \* per request: the Render instance mapped into the context
    res,         \* per request: the response writer (headers, status, body, calls made)
    rpc,         \* per request: "new", "mapped", "html" (inside Render.HTML), "done"
    call,        \* per request: the render call made by the handler
    Data,        \* the package-level Data map: present keys -> value
    clock,       \* time.Now(): the number of readings taken so far
    saw,         \* per request: what Renderor's check of Data read, "unset" or "set"
    crashed      \* the Go runtime aborted the process (concurrent map writes)

gzipVars == <<acceptEnc, hdr, gzPc, chain, writer, gz, under, handlerOut, nWrites, gzLog>>

dataVars == <<Data, clock, saw, crashed>>

renderVars == <<env, options, mw, tsets, rend, res, rpc, call, dataVars>>

vars == <<gzipVars, renderVars>>

\* ------------------------------------------------------------------ bounds
\* Handler writes per request.
MaxWrites == 2

\* ------------------------------------------------------- header constants
HeaderAcceptEncoding  == "Accept-Encoding"
HeaderContentEncoding == "Content-Encoding"
HeaderContentLength   == "Content-Length"
HeaderContentType     == "Content-Type"
HeaderVary            == "Vary"

\* ------------------------------------------------------------ http.Header
\* Header.Get: the value, or "" when the key is absent.
HeaderGet(h, k) == IF k \in DOMAIN h THEN h[k] ELSE ""

\* Header.Set: the key is present afterwards, with this value.
HeaderSet(h, k, v) == [x \in (DOMAIN h) \cup {k} |-> IF x = k THEN v ELSE h[x]]

\* Header.Del: the key is absent afterwards.
HeaderDel(h, k) == [x \in (DOMAIN h) \ {k} |-> h[x]]

EmptyHeader == [x \in {} |-> ""]

\* ---------------------------------------------------------------- strings
Lower(c) == CASE c = "G" -> "g" [] c = "Z" -> "z" [] c = "I" -> "i" [] c = "P" -> "p"
              [] OTHER -> c

\* A case-insensitive containment test (what strings.Contains is not).
StringsContainsFold(s, sub) ==
    \E i \in 0..(Len(s) - Len(sub)) :
        [j \in 1..Len(sub) |-> Lower(s[i + j])] = sub

\* strings.Contains(s, sub) on sequences of characters (case-sensitive).
StringsContains(s, sub) ==
    \E i \in 0..(Len(s) - Len(sub)) : SubSeq(s, i + 1, i + Len(sub)) = sub

GzipToken == <<"g", "z", "i", "p">>

\* Accept-Encoding values a client may send ("" when the header is missing).
AcceptEncodings ==
    { <<>>,
      <<"g", "z", "i", "p">>,
      <<"G", "Z", "I", "P">>,
      <<"g", "z", "i">>,
      <<"b", "r", ",", "g", "z", "i", "p">>,
      <<"x", "-", "g", "z", "i", "p", "2">> }

\* Body chunks a handler may write.
Chunks == { <<>>, <<"a">>, <<"<", "b">> }

\* http.DetectContentType(p): never empty; sniffs the first bytes.
DetectContentType(p) ==
    IF Len(p) > 0 /\ p[1] = "<" THEN "text/html; charset=utf-8"
    ELSE "text/plain; charset=utf-8"

\* --------------------------------------------------------- byte streams
Raw(p)  == [i \in 1..Len(p) |-> [k |-> "raw", b |-> p[i]]]
\* deflate output for the bytes p (not the bytes themselves)
Deflated(p) == [i \in 1..Len(p) |-> [k |-> "z", b |-> p[i]]]
GzHeader  == [k |-> "gzhdr", b |-> ""]
GzTrailer == [k |-> "gztrl", b |-> ""]

\* ------------------------------------------------------------ gzip.Writer
\* gzip.NewWriter(w): nothing is written yet.
GzNew == [created |-> TRUE, wroteHeader |-> FALSE, buf |-> <<>>, closes |-> 0]
GzNone == [created |-> FALSE, wroteHeader |-> FALSE, buf |-> <<>>, closes |-> 0]

\* gzip.Writer.Write(p), flushing `flush` buffered bytes to w: the first Write
\* sends the gzip header straight to w, the data goes through deflate's buffer.
\* The result is <<writer state, bytes appended to w>>.
GzWrite(g, p, flush) ==
    LET hd  == IF g.wroteHeader THEN <<>> ELSE <<GzHeader>>
        all == g.buf \o Deflated(p)
    IN  << [g EXCEPT !.wroteHeader = TRUE,
                     !.buf = SubSeq(all, flush + 1, Len(all))],
           hd \o SubSeq(all, 1, flush) >>

\* gzip.Writer.Close(): the first call writes the header if no Write did,
\* flushes deflate and writes the trailer; later calls do nothing.
GzClose(g) ==
    IF g.closes > 0
    THEN << [g EXCEPT !.closes = @ + 1], <<>> >>
    ELSE << [g EXCEPT !.wroteHeader = TRUE, !.buf = <<>>, !.closes = 1],
            (IF g.wroteHeader THEN <<>> ELSE <<GzHeader>>) \o g.buf \o <<GzTrailer>> >>

\* ------------------------------------------------------------- serveGzip
\* serveGzip that wraps the writer but leaves the Vary header out.
ServeGzipEnterNoVary ==
    /\ gzPc = "start"
    /\ IF ~StringsContains(acceptEnc, GzipToken)
       THEN /\ gzPc' = "done"
            /\ UNCHANGED <<hdr, gz, writer>>
       ELSE /\ hdr' = HeaderSet(hdr, HeaderContentEncoding, "gzip")
            /\ gz' = GzNew
            /\ writer' = "gzw"
            /\ gzPc' = "next"
    /\ chain' = "running"
    /\ UNCHANGED <<acceptEnc, under, handlerOut, nWrites, gzLog>>
    /\ UNCHANGED renderVars

\* serveGzip up to c.Next(): the Accept-Encoding check, the two headers, the
\* gzip.Writer and the wrapper mapped as the downstream http.ResponseWriter.
\* Without "gzip" it returns at once and the handler chain goes on with w.
ServeGzipEnter ==
    /\ gzPc = "start"
    /\ IF ~StringsContains(acceptEnc, GzipToken)
       THEN /\ gzPc' = "done"
            /\ UNCHANGED <<hdr, gz, writer>>
       ELSE /\ hdr' = HeaderSet(HeaderSet(hdr, HeaderContentEncoding, "gzip"),
                                HeaderVary, HeaderAcceptEncoding)
            /\ gz' = GzNew
            /\ writer' = "gzw"
            /\ gzPc' = "next"
    /\ chain' = "running"
    /\ UNCHANGED <<acceptEnc, under, handlerOut, nWrites, gzLog>>
    /\ UNCHANGED renderVars

\* A wrapper whose Write goes to the embedded ResponseWriter, past the
\* gzip.Writer.
GzipResponseWriterWriteDirect(h, g, p, flush) ==
    LET h2 == IF Len(HeaderGet(h, HeaderContentType)) = 0
              THEN HeaderSet(h, HeaderContentType, DetectContentType(p))
              ELSE h
    IN  <<h2, g, Raw(p)>>

\* A wrapper whose Write sniffs Content-Type on every call.
GzipResponseWriterWriteAlwaysSniff(h, g, p, flush) ==
    LET r == GzWrite(g, p, flush)
    IN  <<HeaderSet(h, HeaderContentType, DetectContentType(p)), r[1], r[2]>>

\* gzipResponseWriter.Write(p): sniff Content-Type when it is unset, then
\* write p to the gzip.Writer.  The result is <<headers, gz, bytes sent to w>>.
GzipResponseWriterWrite(h, g, p, flush) ==
    LET h2 == IF Len(HeaderGet(h, HeaderContentType)) = 0
              THEN HeaderSet(h, HeaderContentType, DetectContentType(p))
              ELSE h
        r  == GzWrite(g, p, flush)
    IN  <<h2, r[1], r[2]>>

\* A downstream handler writes p through the http.ResponseWriter it was given.
HandlerWrite ==
    /\ chain = "running"
    /\ nWrites < MaxWrites
    /\ \E p \in Chunks :
         /\ handlerOut' = handlerOut \o p
         /\ IF writer = "gzw"
            THEN \E flush \in 0..(Len(gz.buf) + Len(p)) :
                   LET r == GzipResponseWriterWrite(hdr, gz, p, flush)
                   IN  /\ hdr' = r[1]
                       /\ gz' = r[2]
                       /\ under' = under \o r[3]
            ELSE /\ under' = under \o Raw(p)
                 /\ UNCHANGED <<hdr, gz>>
    /\ nWrites' = nWrites + 1
    /\ UNCHANGED <<acceptEnc, gzPc, chain, writer, gzLog>>
    /\ UNCHANGED renderVars

\* A downstream handler sets Content-Length or Content-Type itself.
HandlerSetHeader ==
    /\ chain = "running"
    /\ \E kv \in { <<HeaderContentLength, "5">>, <<HeaderContentType, "image/jpeg">> } :
         /\ HeaderGet(hdr, kv[1]) # kv[2]
         /\ hdr' = HeaderSet(hdr, kv[1], kv[2])
    /\ UNCHANGED <<acceptEnc, gzPc, chain, writer, gz, under, handlerOut, nWrites, gzLog>>
    /\ UNCHANGED renderVars

\* The downstream chain completes (normally, or by returning early).
HandlerReturn ==
    /\ chain = "running"
    /\ chain' = "returned"
    /\ UNCHANGED <<acceptEnc, hdr, gzPc, writer, gz, under, handlerOut, nWrites, gzLog>>
    /\ UNCHANGED renderVars

\* A downstream handler panics.
HandlerPanic ==
    /\ chain = "running"
    /\ chain' = "panicked"
    /\ UNCHANGED <<acceptEnc, hdr, gzPc, writer, gz, under, handlerOut, nWrites, gzLog>>
    /\ UNCHANGED renderVars

\* A serveGzip that closes the stream before it deletes Content-Length.
ServeGzipReturnCloseFirst ==
    /\ gzPc = "next"
    /\ chain = "returned"
    /\ LET r == GzClose(gz)
       IN  /\ gz' = r[1]
           /\ under' = under \o r[2]
    /\ hdr' = HeaderDel(hdr, HeaderContentLength)
    /\ gzPc' = "done"
    /\ gzLog' = gzLog \o <<"close", "del">>
    /\ UNCHANGED <<acceptEnc, chain, writer, handlerOut, nWrites>>
    /\ UNCHANGED renderVars

\* c.Next() returned: delete Content-Length, then the deferred gz.Close().
ServeGzipReturn ==
    /\ gzPc = "next"
    /\ chain = "returned"
    /\ hdr' = HeaderDel(hdr, HeaderContentLength)
    /\ LET r == GzClose(gz)
       IN  /\ gz' = r[1]
           /\ under' = under \o r[2]
    /\ gzPc' = "done"
    /\ gzLog' = gzLog \o <<"del", "close">>
    /\ UNCHANGED <<acceptEnc, chain, writer, handlerOut, nWrites>>
    /\ UNCHANGED renderVars

\* A serveGzip whose gz.Close() is not deferred: a panic skips it.
ServeGzipUnwindNoClose ==
    /\ gzPc = "next"
    /\ chain = "panicked"
    /\ gzPc' = "panicked"
    /\ UNCHANGED <<acceptEnc, hdr, chain, writer, gz, under, handlerOut, nWrites, gzLog>>
    /\ UNCHANGED renderVars

\* c.Next() panicked: the rest of serveGzip is skipped, the deferred
\* gz.Close() runs while the panic unwinds.
ServeGzipUnwind ==
    /\ gzPc = "next"
    /\ chain = "panicked"
    /\ LET r == GzClose(gz)
       IN  /\ gz' = r[1]
           /\ under' = under \o r[2]
    /\ gzPc' = "panicked"
    /\ gzLog' = Append(gzLog, "close")
    /\ UNCHANGED <<acceptEnc, hdr, chain, writer, handlerOut, nWrites>>
    /\ UNCHANGED renderVars

InitGzip ==
    /\ acceptEnc \in AcceptEncodings
    /\ hdr = EmptyHeader
    /\ gzPc = "start"
    /\ chain = "idle"
    /\ writer = "w"
    /\ gz = GzNone
    /\ under = <<>>
    /\ handlerOut = <<>>
    /\ nWrites = 0
    /\ gzLog = <<>>
    \* the render helper takes no part in SpecGzip
    /\ env = "production"
    /\ options = <<>>
    /\ mw = [registered |-> FALSE]
    /\ tsets = <<>>
    /\ rend = <<>>
    /\ res = <<>>
    /\ rpc = <<>>
    /\ call = <<>>
    /\ Data = <<>>
    /\ clock = 0
    /\ saw = <<>>
    /\ crashed = FALSE

NextGzip ==
    \/ ServeGzipEnter
    \/ HandlerWrite
    \/ HandlerSetHeader
    \/ HandlerReturn
    \/ HandlerPanic
    \/ ServeGzipReturn
    \/ ServeGzipUnwind



SpecGzip == InitGzip /\ [][NextGzip]_vars

\* =========================================================== render helper
\* ------------------------------------------------------------------ bounds
\* Concurrent requests served through Renderer.
NumRequests == 2
\* Nesting of template executions (a yield executing a template) followed.
MaxDepth == 2

Requests == 1..NumRequests

\* ---------------------------------------------------------- constants
ContentType    == "Content-Type"
ContentBinary  == "application/octet-stream"
ContentJSON    == "application/json"
ContentHTML    == "text/html"
ContentXHTML   == "application/xhtml+xml"
ContentXML     == "text/xml"
defaultCharset == "UTF-8"
Dev            == "development"
Prod           == "production"

\* A text built by concatenation is the sequence of its pieces; "" is <<>>.
\* Header.Get on such a header map.
TextHeaderGet(h, k) == IF k \in DOMAIN h THEN h[k] ELSE <<>>

\* ------------------------------------------------------- RenderOptions
\* The zero RenderOptions.
ZeroOptions ==
    [Directory |-> "", Layout |-> "", Extensions |-> <<>>, Charset |-> "",
     IndentJSON |-> FALSE, IndentXML |-> FALSE, PrefixJSON |-> <<>>,
     PrefixXML |-> <<>>, HTMLContentType |-> ""]

\* The RenderOptions a program may register ("tmpl" stands for ".tmpl").
OptionInputs ==
    { ZeroOptions,
      [ZeroOptions EXCEPT !.Directory = "fixtures/basic"],
      [ZeroOptions EXCEPT !.Directory = "fixtures/basic",
                          !.Extensions = << <<"tmpl">> >>],
      [ZeroOptions EXCEPT !.Directory = "fixtures/basic",
                          !.Extensions = << <<"tmpl">> >>,
                          !.Layout = "layout"],
      [ZeroOptions EXCEPT !.Directory = "fixtures/basic",
                          !.Extensions = << <<"tmpl">>, <<"html">> >>,
                          !.Layout = "layout", !.Charset = "foobar",
                          !.IndentJSON = TRUE, !.IndentXML = TRUE,
                          !.PrefixJSON = <<")]}',">>, !.PrefixXML = <<"<?xml?>">>,
                          !.HTMLContentType = ContentXHTML] }

\* prepareCharset: "; charset=" and the charset, UTF-8 when none is given.
prepareCharset(charset) ==
    IF Len(charset) # 0 THEN <<"; charset=", charset>>
    ELSE <<"; charset=", defaultCharset>>

\* prepareRenderOptions: the first option given, with the defaults filled in.
prepareRenderOptions(opts) ==
    LET opt  == IF Len(opts) > 0 THEN opts[1] ELSE ZeroOptions
        opt1 == IF Len(opt.Directory) = 0
                THEN [opt EXCEPT !.Directory = "templates"] ELSE opt
        opt2 == IF Len(opt1.Extensions) = 0
                THEN [opt1 EXCEPT !.Extensions = << <<"html">> >>] ELSE opt1
        opt3 == IF Len(opt2.HTMLContentType) = 0
                THEN [opt2 EXCEPT !.HTMLContentType = ContentHTML] ELSE opt2
    IN  opt3

\* ------------------------------------------------------------- templates
\* The files under a template directory, each the sequence of the parts of
\* its name between dots; their contents, as literal text and actions.
Files(dir) ==
    IF dir = "fixtures/basic"
    THEN { <<"hello", "tmpl">>, <<"content", "tmpl">>, <<"layout", "tmpl">>,
           <<"another_layout", "tmpl">>, <<"hypertext", "html">>, <<"README">> }
    ELSE {}

FileBody(f) ==
    CASE f[1] = "hello"          -> <<"<h1>Hello ", "{{.}}", "</h1>">>
      [] f[1] = "content"        -> <<"<h1>", "{{.}}", "</h1>">>
      [] f[1] = "layout"         -> <<"head", "{{yield}}", "foot">>
      [] f[1] = "another_layout" -> <<"another head ", "{{current}}", "{{yield}}", "another foot">>
      [] f[1] = "hypertext"      -> <<"Hypertext!">>
      [] OTHER                   -> <<"readme">>

\* getExt: "" without a dot, else the dot and everything after the first dot.
getExt(f) == IF Len(f) < 2 THEN <<>> ELSE Tail(f)

\* helperFuncs: yield fails, current is empty.
helperFuncs == [yield |-> [defined |-> FALSE, name |-> "", binding |-> ""],
                current |-> ""]

\* compile: the root template "Martini" named after the directory, and one
\* template per file whose extension is one of options.Extensions, named by
\* the path without its extension, with helperFuncs attached.
compile(opt) ==
    LET matched == { f \in Files(opt.Directory) :
                       \E i \in 1..Len(opt.Extensions) : getExt(f) = opt.Extensions[i] }
        nameOf(f) == SubSeq(f, 1, Len(f) - Len(getExt(f)))[1]
        names == {opt.Directory} \cup { nameOf(f) : f \in matched }
    IN  [tmpls |-> [n \in names |->
                      IF \E f \in matched : nameOf(f) = n
                      THEN FileBody(CHOOSE f \in matched : nameOf(f) = n)
                      ELSE <<"Martini">>],
         funcs |-> helperFuncs]

\* Template.ExecuteTemplate(buf, name, binding) on the set ts: what the buffer
\* holds afterwards (partial when it fails) and the error (<<>> for nil).
RECURSIVE ExecuteTemplate(_, _, _, _)
RECURSIVE ExecuteBody(_, _, _, _)
ExecuteBody(ts, body, binding, depth) ==
    IF body = <<>> THEN [out |-> <<>>, err |-> <<>>]
    ELSE LET tok == Head(body)
             piece ==
               CASE tok = "{{.}}" -> [out |-> <<binding>>, err |-> <<>>]
                 [] tok = "{{current}}" -> [out |-> <<ts.funcs.current>>, err |-> <<>>]
                 [] tok = "{{yield}}" ->
                      IF ~ts.funcs.yield.defined
                      THEN [out |-> <<>>, err |-> <<"yield called with no layout defined">>]
                      ELSE IF depth = 0
                      THEN [out |-> <<>>, err |-> <<"stack exhausted">>]
                      ELSE ExecuteTemplate(ts, ts.funcs.yield.name,
                                           ts.funcs.yield.binding, depth - 1)
                 [] OTHER -> [out |-> <<tok>>, err |-> <<>>]
         IN  IF piece.err # <<>> THEN [out |-> piece.out, err |-> piece.err]
             ELSE LET rest == ExecuteBody(ts, Tail(body), binding, depth)
                  IN  [out |-> piece.out \o rest.out, err |-> rest.err]

ExecuteTemplate(ts, name, binding, depth) ==
    IF name \notin DOMAIN ts.tmpls
    THEN [out |-> <<>>, err |-> <<"html/template: ", name, " is undefined">>]
    ELSE ExecuteBody(ts, ts.tmpls[name], binding, depth)

\* Render.execute
execute(ts, name, binding) == ExecuteTemplate(ts, name, binding, MaxDepth)

\* Render.addYield: registers yield and current on the set's function table.
addYield(ts, name, binding) ==
    [ts EXCEPT !.funcs = [yield |-> [defined |-> TRUE, name |-> name, binding |-> binding],
                          current |-> name]]

\* An HTML call without HTMLRenderOptions.
NoHTMLOpt == <<>>

\* A prepareHTMLRenderOptions that falls back to the middleware's layout when
\* the call's layout is empty.
prepareHTMLRenderOptionsFallback(opt, htmlOpt) ==
    IF Len(htmlOpt) > 0 /\ Len(htmlOpt[1].Layout) > 0
    THEN htmlOpt[1] ELSE [Layout |-> opt.Layout]

\* Render.prepareHTMLRenderOptions: the call's options when given, else the
\* middleware's layout.
prepareHTMLRenderOptions(opt, htmlOpt) ==
    IF Len(htmlOpt) > 0 THEN htmlOpt[1] ELSE [Layout |-> opt.Layout]

\* ------------------------------------------------------- response writer
NewResponse == [hdr |-> EmptyHeader, status |-> 0, body |-> <<>>, log |-> <<>>]

\* w.Header().Set(k, v)
ResSetHeader(w, k, v) ==
    [w EXCEPT !.hdr = HeaderSet(w.hdr, k, v),
              !.log = Append(@, [op |-> "Set", k |-> k])]

\* w.WriteHeader(status): the first status written is the response's.
ResWriteHeader(w, status) ==
    [w EXCEPT !.status = IF w.status = 0 THEN status ELSE @,
              !.log = Append(@, [op |-> "WriteHeader", k |-> ""])]

\* w.Write(b): writes status 200 first when none was written.
ResWrite(w, b) ==
    [w EXCEPT !.status = IF w.status = 0 THEN 200 ELSE @,
              !.body = @ \o b,
              !.log = Append(@, [op |-> "Write", k |-> ""])]

\* http.Error(w, err, code): a plain-text response of the error and a newline.
HttpError(w, err, code) ==
    ResWrite(
      ResWriteHeader(
        ResSetHeader(
          ResSetHeader(w, ContentType, <<"text/plain; charset=utf-8">>),
          "X-Content-Type-Options", <<"nosniff">>),
        code),
      err \o <<"\n">>)

\* --------------------------------------------------------- serialization
\* Values a handler passes to JSON and XML; "chan" cannot be serialized.
Values == {"greeting", "chan"}

\* json.Marshal / json.MarshalIndent
JSONMarshal(v, indent) ==
    IF v = "chan" THEN [out |-> <<>>, err |-> <<"json: unsupported type">>]
    ELSE [out |-> <<IF indent THEN "json-indented:" ELSE "json:", v>>, err |-> <<>>]

\* xml.Marshal / xml.MarshalIndent
XMLMarshal(v, indent) ==
    IF v = "chan" THEN [out |-> <<>>, err |-> <<"xml: unsupported type">>]
    ELSE [out |-> <<IF indent THEN "xml-indented:" ELSE "xml:", v>>, err |-> <<>>]


\* ---------------------------------------------------------------- Render
\* Render.JSON with the success headers written before the error check.
RenderJSONHeaderFirst(rd, w, status, v) ==
    LET m  == JSONMarshal(v, rd.opt.IndentJSON)
        w1 == ResSetHeader(w, ContentType, <<ContentJSON>> \o rd.cs)
        w2 == ResWriteHeader(w1, status)
        w3 == IF Len(rd.opt.PrefixJSON) > 0 THEN ResWrite(w2, rd.opt.PrefixJSON) ELSE w2
    IN  IF m.err # <<>> THEN HttpError(w1, m.err, 500) ELSE ResWrite(w3, m.out)

\* Render.JSON(status, v) on the response w of the Render rd.
RenderJSON(rd, w, status, v) ==
    LET m  == JSONMarshal(v, rd.opt.IndentJSON)
        w1 == ResSetHeader(w, ContentType, <<ContentJSON>> \o rd.cs)
        w2 == ResWriteHeader(w1, status)
        w3 == IF Len(rd.opt.PrefixJSON) > 0 THEN ResWrite(w2, rd.opt.PrefixJSON) ELSE w2
    IN  IF m.err # <<>> THEN HttpError(w, m.err, 500) ELSE ResWrite(w3, m.out)

\* A Render.XML that writes the prefix after the payload.
RenderXMLPrefixLast(rd, w, status, v) ==
    LET m  == XMLMarshal(v, rd.opt.IndentXML)
        w1 == ResSetHeader(w, ContentType, <<ContentXML>> \o rd.cs)
        w2 == ResWrite(ResWriteHeader(w1, status), m.out)
    IN  IF m.err # <<>> THEN HttpError(w, m.err, 500)
        ELSE IF Len(rd.opt.PrefixXML) > 0 THEN ResWrite(w2, rd.opt.PrefixXML) ELSE w2

\* Render.XML(status, v)
RenderXML(rd, w, status, v) ==
    LET m  == XMLMarshal(v, rd.opt.IndentXML)
        w1 == ResSetHeader(w, ContentType, <<ContentXML>> \o rd.cs)
        w2 == ResWriteHeader(w1, status)
        w3 == IF Len(rd.opt.PrefixXML) > 0 THEN ResWrite(w2, rd.opt.PrefixXML) ELSE w2
    IN  IF m.err # <<>> THEN HttpError(w, m.err, 500) ELSE ResWrite(w3, m.out)

\* A WriteData that always sets application/octet-stream.
RenderWriteDataAlwaysBinary(w, status, v) ==
    ResWrite(ResWriteHeader(ResSetHeader(w, ContentType, <<ContentBinary>>), status), v)

\* Render.WriteData(status, v)
RenderWriteData(w, status, v) ==
    LET w1 == IF TextHeaderGet(w.hdr, ContentType) = <<>>
              THEN ResSetHeader(w, ContentType, <<ContentBinary>>) ELSE w
    IN  ResWrite(ResWriteHeader(w1, status), v)

\* Render.HTML after renderBytes returned m: the error response, or the
\* content type, the status and the rendered bytes (io.Copy writes nothing
\* for an empty buffer).
RenderHTMLWrite(rd, w, status, m) ==
    IF m.err # <<>> THEN HttpError(w, m.err, 500)
    ELSE LET w1 == ResSetHeader(w, ContentType, <<rd.opt.HTMLContentType>> \o rd.cs)
             w2 == ResWriteHeader(w1, status)
         IN  IF Len(m.out) > 0 THEN ResWrite(w2, m.out) ELSE w2

\* ------------------------------------------------------------- Renderer
NoRender == [t |-> -1, opt |-> ZeroOptions, cs |-> <<>>, data |-> -1]
NoCall == [op |-> "", status |-> 0, name |-> "", binding |-> "", v |-> "",
           data |-> <<>>, htmlOpt |-> <<>>, execName |-> "", ctBefore |-> <<>>]

\* Inputs of the handlers' render calls.
Statuses      == {300}
TemplateNames == {"hello", "content", "nope"}
Bindings      == {"jeremy", "world"}
HTMLOptInputs == { NoHTMLOpt, <<[Layout |-> ""]>>, <<[Layout |-> "another_layout"]>> }
DataInputs    == { <<"\\x89PNG">> }

\* ------------------------------------------------------------------ Data
\* The package-level map Data, as the object every reference to it names.
SharedData == 0

\* Data = map[string]interface{}{}
EmptyData == [x \in {} |-> 0]

\* A Render given a copy of Data of its own.
RenderDataCopy(r) == r

\* The Data field of the Render built for request r: the package-level map.
RenderData(r) == SharedData

\* A Renderer handler that hands every request the shared set t itself.
RequestTemplateShared(r) == [id |-> 0, set |-> tsets[0]]

\* The template set of a request's Render: a fresh compilation in
\* development, a clone of t otherwise; either way an object of its own.
RequestTemplate(r) ==
    IF env = Dev THEN [id |-> r, set |-> compile(mw.opt)]
    ELSE [id |-> r, set |-> tsets[0]]

\* Renderer(options...): the options with defaults, the charset suffix and
\* the templates compiled once.
Renderer ==
    /\ ~crashed
    /\ ~mw.registered
    /\ LET opt == prepareRenderOptions(options)
       IN  /\ mw' = [registered |-> TRUE, opt |-> opt, cs |-> prepareCharset(opt.Charset)]
           /\ tsets' = (0 :> compile(opt))
    /\ UNCHANGED <<env, options, rend, res, rpc, call>>
    /\ UNCHANGED dataVars
    /\ UNCHANGED gzipVars

\* The handler Renderer returns, for request r: maps a Render with the
\* request's own template set.
RendererHandler(r) ==
    /\ ~crashed
    /\ mw.registered
    /\ rpc[r] = "new"
    /\ LET tc == RequestTemplate(r)
       IN  /\ tsets' = (tc.id :> tc.set) @@ tsets
           /\ rend' = [rend EXCEPT ![r] = [t |-> tc.id, opt |-> mw.opt, cs |-> mw.cs,
                                           data |-> RenderData(r)]]
    /\ rpc' = [rpc EXCEPT ![r] = "mapped"]
    /\ UNCHANGED <<env, options, mw, res, call>>
    /\ UNCHANGED dataVars
    /\ UNCHANGED gzipVars

\* The request's handler sets a Content-Type of its own before rendering.
HandlerSetContentType(r) ==
    /\ rpc[r] = "mapped"
    /\ ContentType \notin DOMAIN res[r].hdr
    /\ res' = [res EXCEPT ![r] = ResSetHeader(@, ContentType, <<"image/jpeg">>)]
    /\ UNCHANGED <<env, options, mw, tsets, rend, rpc, call>>
    /\ UNCHANGED dataVars
    /\ UNCHANGED gzipVars

\* The request's handler calls r.JSON(status, v).
JSON(r) ==
    /\ rpc[r] = "mapped"
    /\ ContentType \notin DOMAIN res[r].hdr
    /\ \E status \in Statuses, v \in Values :
         /\ res' = [res EXCEPT ![r] = RenderJSON(rend[r], @, status, v)]
         /\ call' = [call EXCEPT ![r] = [NoCall EXCEPT !.op = "JSON", !.status = status, !.v = v]]
    /\ rpc' = [rpc EXCEPT ![r] = "done"]
    /\ UNCHANGED <<env, options, mw, tsets, rend>>
    /\ UNCHANGED dataVars
    /\ UNCHANGED gzipVars

\* The request's handler calls r.XML(status, v).
XML(r) ==
    /\ rpc[r] = "mapped"
    /\ ContentType \notin DOMAIN res[r].hdr
    /\ \E status \in Statuses, v \in Values :
         /\ res' = [res EXCEPT ![r] = RenderXML(rend[r], @, status, v)]
         /\ call' = [call EXCEPT ![r] = [NoCall EXCEPT !.op = "XML", !.status = status, !.v = v]]
    /\ rpc' = [rpc EXCEPT ![r] = "done"]
    /\ UNCHANGED <<env, options, mw, tsets, rend>>
    /\ UNCHANGED dataVars
    /\ UNCHANGED gzipVars

\* The request's handler calls r.WriteData(status, v).
WriteData(r) ==
    /\ rpc[r] = "mapped"
    /\ \E status \in Statuses, v \in DataInputs :
         /\ res' = [res EXCEPT ![r] = RenderWriteData(@, status, v)]
         /\ call' = [call EXCEPT ![r] =
                       [NoCall EXCEPT !.op = "WriteData", !.status = status, !.data = v,
                                      !.ctBefore = TextHeaderGet(res[r].hdr, ContentType)]]
    /\ rpc' = [rpc EXCEPT ![r] = "done"]
    /\ UNCHANGED <<env, options, mw, tsets, rend>>
    /\ UNCHANGED dataVars
    /\ UNCHANGED gzipVars

\* r.HTML(status, name, binding, htmlOpt...) up to the execution: renderBytes
\* resolves the layout and, with a layout, registers yield and current on the
\* Render's template set and makes the layout the template to execute.
HTMLBegin(r) ==
    /\ rpc[r] = "mapped"
    /\ ContentType \notin DOMAIN res[r].hdr
    /\ \E status \in Statuses, name \in TemplateNames, binding \in Bindings,
          htmlOpt \in HTMLOptInputs :
         LET opt == prepareHTMLRenderOptions(rend[r].opt, htmlOpt)
             layout == Len(opt.Layout) > 0
         IN  /\ tsets' = IF layout
                         THEN [tsets EXCEPT ![rend[r].t] = addYield(@, name, binding)]
                         ELSE tsets
             /\ call' = [call EXCEPT ![r] =
                           [NoCall EXCEPT !.op = "HTML", !.status = status, !.name = name,
                                          !.binding = binding, !.htmlOpt = htmlOpt,
                                          !.execName = IF layout THEN opt.Layout ELSE name]]
    /\ rpc' = [rpc EXCEPT ![r] = "html"]
    /\ UNCHANGED <<env, options, mw, rend, res>>
    /\ UNCHANGED dataVars
    /\ UNCHANGED gzipVars

\* r.HTML from the execution on: execute the template on the Render's set
\* and write the response.
HTMLFinish(r) ==
    /\ rpc[r] = "html"
    /\ LET m == execute(tsets[rend[r].t], call[r].execName, call[r].binding)
       IN  res' = [res EXCEPT ![r] = RenderHTMLWrite(rend[r], @, call[r].status, m)]
    /\ rpc' = [rpc EXCEPT ![r] = "done"]
    /\ UNCHANGED <<env, options, mw, tsets, rend, call>>
    /\ UNCHANGED dataVars
    /\ UNCHANGED gzipVars

\* Renderor(res, req, c, options...) for request r, its first step: the read
\* of Data["RequestStartTime"] in the if condition.
RenderorCheck(r) ==
    /\ ~crashed
    /\ rpc[r] = "new"
    /\ saw' = [saw EXCEPT ![r] = IF "RequestStartTime" \in DOMAIN Data THEN "set" ELSE "unset"]
    /\ rpc' = [rpc EXCEPT ![r] = "renderor"]
    /\ UNCHANGED <<env, options, mw, tsets, rend, res, call, Data, clock, crashed>>
    /\ UNCHANGED gzipVars

\* Renderor from the if body on: the write of time.Now() when the check read
\* the entry as unset, then the options, the charset, the compilation and the
\* Render holding Data.
RenderorSet(r) ==
    /\ ~crashed
    /\ rpc[r] = "renderor"
    /\ IF saw[r] = "unset"
       THEN /\ clock' = clock + 1
            /\ Data' = [x \in (DOMAIN Data) \cup {"RequestStartTime"} |-> clock + 1]
       ELSE UNCHANGED <<Data, clock>>
    /\ LET opt == prepareRenderOptions(options)
       IN  /\ tsets' = (r :> compile(opt)) @@ tsets
           /\ rend' = [rend EXCEPT ![r] = [t |-> r, opt |-> opt,
                                           cs |-> prepareCharset(opt.Charset),
                                           data |-> RenderData(r)]]
    /\ rpc' = [rpc EXCEPT ![r] = "mapped"]
    /\ UNCHANGED <<env, options, mw, res, call, saw, crashed>>
    /\ UNCHANGED gzipVars

\* Two Renderor calls are both about to write Data: the runtime may detect
\* the concurrent map writes and abort the process.
RenderorFatal ==
    /\ ~crashed
    /\ \E r, q \in Requests :
         /\ r # q
         /\ rpc[r] = "renderor" /\ saw[r] = "unset"
         /\ rpc[q] = "renderor" /\ saw[q] = "unset"
    /\ crashed' = TRUE
    /\ UNCHANGED <<env, options, mw, tsets, rend, res, rpc, call, Data, clock, saw>>
    /\ UNCHANGED gzipVars

InitRender ==
    /\ env \in {Dev, Prod}
    /\ options \in {<<>>} \cup { <<o>> : o \in OptionInputs }
    /\ mw = [registered |-> FALSE]
    /\ tsets = <<>>
    /\ rend = [r \in Requests |-> NoRender]
    /\ res = [r \in Requests |-> NewResponse]
    /\ rpc = [r \in Requests |-> "new"]
    /\ call = [r \in Requests |-> NoCall]
    /\ Data = EmptyData
    /\ clock = 0
    /\ saw = [r \in Requests |-> ""]
    /\ crashed = FALSE
    \* the compression filter takes no part in SpecRender
    /\ acceptEnc = <<>>
    /\ hdr = EmptyHeader
    /\ gzPc = "start"
    /\ chain = "idle"
    /\ writer = "w"
    /\ gz = GzNone
    /\ under = <<>>
    /\ handlerOut = <<>>
    /\ nWrites = 0
    /\ gzLog = <<>>

NextRender ==
    \/ Renderer
    \/ \E r \in Requests :
         \/ RendererHandler(r)
         \/ HandlerSetContentType(r)
         \/ JSON(r)
         \/ XML(r)
         \/ WriteData(r)
         \/ HTMLBegin(r)
         \/ HTMLFinish(r)

SpecRender == InitRender /\ [][NextRender]_vars

\* Requests that get their Render from the Renderer middleware or from a
\* Renderor call of their handler.
NextRenderor ==
    \/ Renderer
    \/ RenderorFatal
    \/ \E r \in Requests :
         \/ RendererHandler(r)
         \/ RenderorCheck(r)
         \/ RenderorSet(r)

SpecRenderor == InitRender /\ [][NextRenderor]_vars

\* ------------------------------------------------- compression filter claims
\* The request's Accept-Encoding holds the characters g,z,i,p in a row.
GzipRequested ==
    \E i \in 1..(Len(acceptEnc) - 3) :
        /\ acceptEnc[i] = "g" /\ acceptEnc[i + 1] = "z"
        /\ acceptEnc[i + 2] = "i" /\ acceptEnc[i + 3] = "p"

\* C1: for a request whose Accept-Encoding does not contain "gzip"
\* (case-sensitive), the filter sets no Content-Encoding and no Vary, sniffs no
\* Content-Type, creates no compression stream, leaves the downstream writer
\* capability alone, and the bytes the handlers write reach the underlying
\* writer unmodified.
C1_NoGzipPassThrough ==
    ~GzipRequested =>
        /\ HeaderContentEncoding \notin DOMAIN hdr
        /\ HeaderVary \notin DOMAIN hdr
        /\ HeaderGet(hdr, HeaderContentType) \in {"", "image/jpeg"}
        /\ writer = "w"
        /\ ~gz.created
        /\ under = Raw(handlerOut)
        /\ gzPc \in {"start", "done"}

C1_Witness ==
    /\ ~GzipRequested
    /\ acceptEnc = <<"G", "Z", "I", "P">>
    /\ gzPc = "done"
    /\ chain = "returned"
    /\ Len(handlerOut) > 1

\* C2: for a request whose Accept-Encoding contains "gzip", Content-Encoding:
\* gzip and Vary: Accept-Encoding are set from the moment the filter has
\* entered the chain, so before any byte reaches the underlying writer, and
\* they are still set when the filter is left.
C2_HeadersBeforeBody ==
    GzipRequested =>
        ((under # <<>> \/ handlerOut # <<>> \/ gzPc # "start") =>
            /\ HeaderGet(hdr, HeaderContentEncoding) = "gzip"
            /\ HeaderGet(hdr, HeaderVary) = HeaderAcceptEncoding)

C2_Witness ==
    /\ GzipRequested
    /\ gzPc = "next"
    /\ under # <<>>
    /\ HeaderGet(hdr, HeaderVary) = HeaderAcceptEncoding

\* C3: a compression stream the filter created is closed exactly once by the
\* time the filter is left, by normal return and by a panic alike, never more
\* than once, and the close flushes everything and ends the output with the
\* trailer.
C3_ClosedExactlyOnce ==
    gz.created =>
        /\ gz.closes <= 1
        /\ (gzPc \in {"done", "panicked"} =>
              /\ gz.closes = 1
              /\ gz.buf = <<>>
              /\ under # <<>>
              /\ under[Len(under)] = GzTrailer)
        /\ (gzPc = "next" => gz.closes = 0)

C3_Witness ==
    /\ gz.created
    /\ gzPc = "panicked"
    /\ gz.closes = 1
    /\ handlerOut # <<>>

\* C4: for a request with "gzip" in Accept-Encoding, whatever the handlers
\* downstream did, Content-Length is absent from the response headers once
\* the filter is left.
C4_NoContentLengthAtEnd ==
    (GzipRequested /\ gzPc \in {"done", "panicked"}) =>
        HeaderContentLength \notin DOMAIN hdr

\* C5: in every state of a gzip-wrapped request in which at least one byte has
\* been written through the wrapper, Content-Length is absent from the
\* response header map.
C5_NoContentLengthAfterWrite ==
    (writer = "gzw" /\ handlerOut # <<>>) =>
        HeaderContentLength \notin DOMAIN hdr

\* ------------------------------------------------------ render helper claims
\* What the fixture templates render to, written out by hand.
ContentOf(name, binding) ==
    CASE name = "hello"   -> <<"<h1>Hello ", binding, "</h1>">>
      [] name = "content" -> <<"<h1>", binding, "</h1>">>
      [] OTHER            -> <<"?">>

ExpectedHTML(layout, name, binding) ==
    CASE layout = ""               -> ContentOf(name, binding)
      [] layout = "layout"         -> <<"head">> \o ContentOf(name, binding) \o <<"foot">>
      [] layout = "another_layout" ->
           <<"another head ", name>> \o ContentOf(name, binding) \o <<"another foot">>
      [] OTHER                     -> <<"?">>

\* The layout in effect for request r's HTML call.
EffectiveLayout(r) ==
    IF Len(call[r].htmlOpt) > 0 THEN call[r].htmlOpt[1].Layout ELSE rend[r].opt.Layout

\* The error request r's finished JSON, XML or HTML call met (<<>> for none).
CallError(r) ==
    CASE call[r].op = "JSON" ->
           IF call[r].v = "chan" THEN <<"json: unsupported type">> ELSE <<>>
      [] call[r].op = "XML" ->
           IF call[r].v = "chan" THEN <<"xml: unsupported type">> ELSE <<>>
      [] call[r].op = "HTML" ->
           execute(tsets[rend[r].t], call[r].execName, call[r].binding).err
      [] OTHER -> <<>>

\* C6: when serialization (JSON, XML) or template execution (HTML) fails, the
\* response has status 500 and the error text as its body, and the only calls
\* made on the response writer are those of the error response: no success
\* Content-Type, not the caller's status, no prefix and no partial payload.
C6_FailureWritesOnlyError ==
    \A r \in Requests :
        (rpc[r] = "done" /\ call[r].op \in {"JSON", "XML", "HTML"}
                         /\ CallError(r) # <<>>) =>
            /\ res[r].status = 500
            /\ res[r].body = CallError(r) \o <<"\n">>
            /\ res[r].hdr[ContentType] = <<"text/plain; charset=utf-8">>
            /\ [i \in 1..Len(res[r].log) |-> res[r].log[i].op]
                 = <<"Set", "Set", "WriteHeader", "Write">>
            /\ \A i \in 1..Len(res[r].log) :
                 res[r].log[i].k \in {"", ContentType, "X-Content-Type-Options"}

C6_Witness ==
    \E r \in Requests :
        /\ rpc[r] = "done"
        /\ call[r].op = "HTML"
        /\ call[r].execName = "layout"
        /\ call[r].name = "nope"
        /\ res[r].status = 500
        /\ res[r].body = <<"html/template: ", "nope", " is undefined", "\n">>

\* C7: the call's HTMLRenderOptions, when given, decide the layout, an empty
\* Layout included (no layout then, whatever the middleware's default); without
\* them the middleware's Layout does.  A non-empty effective layout is the
\* template executed, with yield rendering the named template; with an empty
\* one the named template is executed directly.
C7_LayoutResolution ==
    \A r \in Requests :
        call[r].op = "HTML" =>
            /\ call[r].execName =
                 IF EffectiveLayout(r) # "" THEN EffectiveLayout(r) ELSE call[r].name
            /\ (rpc[r] = "done" /\ res[r].status # 500) =>
                 res[r].body = ExpectedHTML(EffectiveLayout(r), call[r].name, call[r].binding)

C7_Witness ==
    \E r \in Requests :
        /\ rpc[r] = "done"
        /\ call[r].op = "HTML"
        /\ call[r].htmlOpt = <<[Layout |-> ""]>>
        /\ rend[r].opt.Layout = "layout"
        /\ call[r].name = "content"
        /\ res[r].status = 300
        /\ res[r].body = <<"<h1>", call[r].binding, "</h1>">>

\* C8: WriteData sets Content-Type to application/octet-stream only when none
\* is set at the time of the call, leaves a Content-Type the handler set
\* unchanged, and in both cases writes the status and the bytes as given.
C8_WriteDataContentType ==
    \A r \in Requests :
        (rpc[r] = "done" /\ call[r].op = "WriteData") =>
            /\ res[r].hdr[ContentType] =
                 IF call[r].ctBefore = <<>> THEN <<ContentBinary>> ELSE call[r].ctBefore
            /\ res[r].status = call[r].status
            /\ res[r].body = call[r].data

C8_Witness ==
    \E r \in Requests :
        /\ rpc[r] = "done"
        /\ call[r].op = "WriteData"
        /\ call[r].ctBefore = <<"image/jpeg">>
        /\ res[r].hdr[ContentType] = <<"image/jpeg">>
        /\ res[r].body # <<>>

\* Request r's HTML call applies a layout.
LayoutApplied(r) == call[r].op = "HTML" /\ call[r].execName # call[r].name

\* C9: under every interleaving, each request's Render has a template set of
\* its own, different from the set compiled once and from every other
\* request's; the set compiled once keeps its function table; a request's
\* yield and current are those of its own call from addYield on, and its
\* layout renders its own content template and binding.
C9_TemplatesPerRequest ==
    /\ mw.registered => tsets[0].funcs = helperFuncs
    /\ \A r \in Requests :
         rpc[r] # "new" =>
            /\ rend[r].t # 0
            /\ \A q \in Requests \ {r} : rpc[q] # "new" => rend[q].t # rend[r].t
            /\ LayoutApplied(r) =>
                 tsets[rend[r].t].funcs =
                    [yield |-> [defined |-> TRUE, name |-> call[r].name,
                                binding |-> call[r].binding],
                     current |-> call[r].name]
            /\ ~LayoutApplied(r) => tsets[rend[r].t].funcs = helperFuncs
            /\ (rpc[r] = "done" /\ LayoutApplied(r) /\ res[r].status # 500) =>
                 res[r].body = ExpectedHTML(call[r].execName, call[r].name, call[r].binding)

C9_Witness ==
    \E r, q \in Requests :
        /\ r # q
        /\ env = Prod
        /\ rpc[r] = "done" /\ rpc[q] = "html"
        /\ LayoutApplied(r) /\ LayoutApplied(q)
        /\ call[r].name = "content" /\ call[q].name = "hello"
        /\ call[r].binding # call[q].binding
        /\ res[r].status = 300

\* C10: with no options, or with empty Extensions, the extensions used to
\* discover templates are [".tmpl"].
C10_DefaultExtensionsTmpl ==
    (mw.registered /\ (Len(options) = 0 \/ Len(options[1].Extensions) = 0)) =>
        mw.opt.Extensions = << <<"tmpl">> >>

\* The charset suffix the registered options ask for.
ExpectedCharset ==
    <<"; charset=",
      IF Len(options) > 0 /\ options[1].Charset # "" THEN options[1].Charset ELSE "UTF-8">>

\* The content type, prefix and payload of request r's successful call.
ExpectedType(r) ==
    CASE call[r].op = "JSON" -> "application/json"
      [] call[r].op = "XML"  -> "text/xml"
      [] OTHER -> IF Len(options) > 0 /\ options[1].HTMLContentType # ""
                  THEN options[1].HTMLContentType ELSE "text/html"

ExpectedPrefix(r) ==
    CASE call[r].op = "JSON" -> rend[r].opt.PrefixJSON
      [] call[r].op = "XML"  -> rend[r].opt.PrefixXML
      [] OTHER -> <<>>

ExpectedPayload(r) ==
    CASE call[r].op = "JSON" ->
           <<IF rend[r].opt.IndentJSON THEN "json-indented:" ELSE "json:", call[r].v>>
      [] call[r].op = "XML" ->
           <<IF rend[r].opt.IndentXML THEN "xml-indented:" ELSE "xml:", call[r].v>>
      [] OTHER -> ExpectedHTML(EffectiveLayout(r), call[r].name, call[r].binding)

\* C11: on the success path of JSON, XML and HTML the calls made on the
\* response writer are, in this order: one Set of Content-Type (the type and
\* the charset suffix), one WriteHeader with the caller's status, then the
\* body writes, the prefix (when non-empty) in a Write of its own before the
\* payload; no header is set after the status.
C11_SuccessOrder ==
    \A r \in Requests :
        (rpc[r] = "done" /\ call[r].op \in {"JSON", "XML", "HTML"}
                         /\ CallError(r) = <<>>) =>
            /\ [i \in 1..Len(res[r].log) |-> res[r].log[i].op] =
                 <<"Set", "WriteHeader">> \o
                 (IF ExpectedPrefix(r) # <<>> THEN <<"Write">> ELSE <<>>) \o <<"Write">>
            /\ res[r].log[1].k = ContentType
            /\ res[r].hdr = (ContentType :> (<<ExpectedType(r)>> \o ExpectedCharset))
            /\ res[r].status = call[r].status
            /\ res[r].body = ExpectedPrefix(r) \o ExpectedPayload(r)
            /\ SubSeq(res[r].body, 1, Len(ExpectedPrefix(r))) = ExpectedPrefix(r)

C11_Witness ==
    \E r \in Requests :
        /\ rpc[r] = "done"
        /\ call[r].op = "XML"
        /\ res[r].status = 300
        /\ rend[r].opt.PrefixXML = <<"<?xml?>">>
        /\ res[r].body = <<"<?xml?>", "xml-indented:", "greeting">>
        /\ Len(res[r].log) = 4

\* Positions of event e in the filter's log.
LogPositions(e) == { i \in 1..Len(gzLog) : gzLog[i] = e }

\* C12 as stated: whenever Content-Length has been deleted by the filter, the
\* compression stream was closed before the deletion.
C12_CloseBeforeDelete ==
    \A i \in LogPositions("del") : \E j \in LogPositions("close") : j < i

\* C12 as amended: the filter deletes Content-Length after the downstream
\* chain has returned and before the deferred close of the compression stream:
\* a close never precedes the delete, a normal return ends with the delete
\* followed by the close, and a panic with the close alone.
C12_DeleteBeforeClose ==
    /\ \A i \in LogPositions("del") : \A j \in LogPositions("close") : i < j
    /\ gzLog # <<>> => chain \in {"returned", "panicked"}
    /\ (gzPc = "done" /\ gz.created) => gzLog = <<"del", "close">>
    /\ gzPc = "panicked" => gzLog = <<"close">>
    /\ gzPc \in {"start", "next"} => gzLog = <<>>

C12_Witness ==
    /\ gzPc = "done"
    /\ gzLog = <<"del", "close">>
    /\ gz.closes = 1
    /\ handlerOut # <<>>
    /\ HeaderContentLength \notin DOMAIN hdr
    /\ under[Len(under)] = GzTrailer

\* C13: for a gzip-wrapped request no byte a handler writes goes to the
\* underlying writer as it is: the underlying writer holds only output of the
\* compression stream (its header, then deflate output of the handlers' bytes
\* in order, what is not yet flushed being in the stream's buffer), ended by
\* the trailer once the stream is closed.
C13_OnlyCompressedOutput ==
    writer = "gzw" =>
        /\ \A i \in 1..Len(under) : under[i].k # "raw"
        /\ IF gz.closes = 0
           THEN under \o gz.buf =
                  IF gz.wroteHeader THEN <<GzHeader>> \o Deflated(handlerOut) ELSE <<>>
           ELSE under = <<GzHeader>> \o Deflated(handlerOut) \o <<GzTrailer>>

C13_Witness ==
    /\ writer = "gzw"
    /\ gzPc = "done"
    /\ handlerOut = <<"a", "<", "b">>
    /\ Len(under) = 5
    /\ under[2] = [k |-> "z", b |-> "a"]

\* C14: a write through the wrapper that finds Content-Type set leaves the
\* headers as they are (a type the handler set is kept, a sniffed one is not
\* sniffed again); one that finds it unset sets it to the type sniffed from
\* the bytes of that write; after any write through the wrapper Content-Type
\* is non-empty, and the filter's own steps never change it.
C14_SniffOnlyWhenUnset ==
    [][ /\ (writer = "gzw" /\ nWrites' = nWrites + 1) =>
             LET p == SubSeq(handlerOut', Len(handlerOut) + 1, Len(handlerOut'))
             IN  /\ HeaderGet(hdr, HeaderContentType) # "" => hdr' = hdr
                 /\ HeaderGet(hdr, HeaderContentType) = "" =>
                      hdr' = HeaderSet(hdr, HeaderContentType,
                                       IF p # <<>> /\ p[1] = "<"
                                       THEN "text/html; charset=utf-8"
                                       ELSE "text/plain; charset=utf-8")
        /\ (writer' = "gzw" /\ nWrites' > 0) => HeaderGet(hdr', HeaderContentType) # ""
        /\ gzPc' # gzPc =>
             HeaderGet(hdr', HeaderContentType) = HeaderGet(hdr, HeaderContentType)
      ]_vars

C14_Witness ==
    /\ writer = "gzw"
    /\ nWrites = 2
    /\ handlerOut = <<"a", "<", "b">>
    /\ HeaderGet(hdr, HeaderContentType) = "text/plain; charset=utf-8"

\* Requests whose Renderor call read the entry as unset and has returned.
UnsetWriters == { r \in Requests : saw[r] = "unset" /\ rpc[r] = "mapped" }

\* C15: the Data map is written without synchronization: every Renderor call
\* that read "RequestStartTime" as unset writes it, whatever another call wrote
\* in between (so two concurrent calls can both read it unset and both write,
\* the later write replacing the earlier), and every Render built by Renderer
\* or Renderor holds the package-level map itself, not a copy.
C15_SharedDataUnguarded ==
    /\ \A r \in Requests : rend[r].t # -1 => rend[r].data = SharedData
    /\ clock = Cardinality(UnsetWriters)
    /\ IF clock = 0 THEN Data = EmptyData
       ELSE Data = ("RequestStartTime" :> clock)

C15_Witness ==
    \E r, q \in Requests :
        /\ r # q
        /\ saw[r] = "unset" /\ saw[q] = "unset"
        /\ rpc[r] = "mapped" /\ rpc[q] = "mapped"
        /\ clock = 2
        /\ Data["RequestStartTime"] = 2
        /\ rend[r].data = rend[q].data

====
